---- MODULE Spec2Model ----
(***************************************************************************)
(* A model of functorch's batching rules for indexing, gather and scatter  *)
(* (functorch/csrc/BatchRulesScatterOps.cpp).                              *)
(*                                                                         *)
(* A tensor is a record [shape, dtype, data]: shape is the sequence of     *)
(* dimension sizes, data the elements in row-major order.  Multi-indices   *)
(* are sequences of 0-based coordinates.  An optional<T> is <<>> (nullopt) *)
(* or <<x>>.  A call of a tensor primitive that the tensor library rejects *)
(* yields the tensor Invalid.                                              *)
(***************************************************************************)
EXTENDS Integers, Sequences, FiniteSets, TLC

VARIABLES pc, call, ret

vars == <<pc, call, ret>>

(***************************************************************************)
(* Bounds of the model.                                                    *)
(***************************************************************************)
MaxBatch == 2
MaxSeed == 1

---------------------------------------------------------------------------
(***************************************************************************)
(* optional<T>                                                             *)
(***************************************************************************)
nullopt == <<>>

Some(x) == <<x>>

has_value(o) == o # <<>>

value(o) == o[1]

---------------------------------------------------------------------------
(***************************************************************************)
(* Tensors: shapes, offsets, construction.                                 *)
(***************************************************************************)
RECURSIVE Prod(_)
Prod(s) == IF Len(s) = 0 THEN 1 ELSE s[1] * Prod(Tail(s))

RECURSIVE SumSeq(_)
SumSeq(s) == IF Len(s) = 0 THEN 0 ELSE s[1] + SumSeq(Tail(s))

Max2(a, b) == IF a >= b THEN a ELSE b

\* The row-major stride of position d (1-based) of a shape.
Stride(shape, d) == Prod(SubSeq(shape, d + 1, Len(shape)))

\* The multi-index of the 0-based row-major offset k.
Unravel(k, shape) == [d \in 1..Len(shape) |-> (k \div Stride(shape, d)) % shape[d]]

\* The 0-based row-major offset of a multi-index.
Ravel(idx, shape) == SumSeq([d \in 1..Len(shape) |-> idx[d] * Stride(shape, d)])

Tensor(shape, dtype, data) == [shape |-> shape, dtype |-> dtype, data |-> data]

\* The tensor of the given shape whose element at multi-index i is F(i).
Build(shape, dtype, F(_)) ==
  Tensor(shape, dtype, [k \in 1..Prod(shape) |-> F(Unravel(k - 1, shape))])

At(t, idx) == t.data[Ravel(idx, t.shape) + 1]

Rank(t) == Len(t.shape)

Numel(t) == Prod(t.shape)

\* What a rejected primitive call yields (the library throws).
Invalid == Tensor(<<>>, "invalid", <<>>)

IsInvalid(t) == t.dtype = "invalid"

InBounds(idx, shape) ==
  /\ Len(idx) = Len(shape)
  /\ \A d \in 1..Len(shape) : idx[d] >= 0 /\ idx[d] < shape[d]

\* A sequence with position d (1-based) removed / with x inserted at position d.
RemoveAt(s, d) == SubSeq(s, 1, d - 1) \o SubSeq(s, d + 1, Len(s))

InsertAt(s, d, x) == SubSeq(s, 1, d - 1) \o <<x>> \o SubSeq(s, d, Len(s))

ReplaceAt(s, d, x) == [s EXCEPT ![d] = x]

---------------------------------------------------------------------------
(***************************************************************************)
(* Shape primitives of the tensor library.                                 *)
(***************************************************************************)
\* t.movedim(src, 0), src a 0-based dimension.
MoveDimToFront(t, src) ==
  Build(<<t.shape[src + 1]>> \o RemoveAt(t.shape, src + 1), t.dtype,
        LAMBDA i : At(t, InsertAt(Tail(i), src + 1, i[1])))

\* t.movedim(0, dst): the inverse of MoveDimToFront.
MoveFrontTo(t, dst) ==
  Build(InsertAt(Tail(t.shape), dst + 1, t.shape[1]), t.dtype,
        LAMBDA i : At(t, <<i[dst + 1]>> \o RemoveAt(i, dst + 1)))

\* t.unsqueeze(-1)
UnsqueezeLast(t) == Tensor(t.shape \o <<1>>, t.dtype, t.data)

\* t.squeeze(-1): drops the last dimension when its size is 1.
SqueezeLast(t) ==
  IF Rank(t) > 0 /\ t.shape[Len(t.shape)] = 1
  THEN Tensor(SubSeq(t.shape, 1, Len(t.shape) - 1), t.dtype, t.data)
  ELSE t

\* t.squeeze(0)
SqueezeFirst(t) ==
  IF Rank(t) > 0 /\ t.shape[1] = 1 THEN Tensor(Tail(t.shape), t.dtype, t.data) ELSE t

\* Whether a tensor of shape `from` broadcasts to shape `to`.
Expandable(from, to) ==
  /\ Len(from) <= Len(to)
  /\ \A d \in 1..Len(from) :
       LET e == to[Len(to) - Len(from) + d] IN from[d] = e \/ from[d] = 1

\* The multi-index of t read at multi-index i of a broadcast of t.
BroadcastIdx(shape, i) ==
  [d \in 1..Len(shape) |->
     IF shape[d] = 1 THEN 0 ELSE i[Len(i) - Len(shape) + d]]

\* t.expand(shape)
Expand(t, shape) ==
  IF IsInvalid(t) \/ ~Expandable(t.shape, shape) THEN Invalid
  ELSE Build(shape, t.dtype, LAMBDA i : At(t, BroadcastIdx(t.shape, i)))

\* t.reshape(shape) and t.view(shape): the elements in row-major order.
Reshape(t, shape) ==
  IF IsInvalid(t) \/ Prod(shape) # Numel(t) THEN Invalid
  ELSE Tensor(shape, t.dtype, t.data)

\* at::arange(0, n)
Arange(n) == Tensor(<<n>>, "long", [k \in 1..n |-> k - 1])

\* The broadcast of two shapes (<<-1>> when they do not broadcast).
BroadcastShapes(a, b) ==
  LET n == Max2(Len(a), Len(b))
      da(d) == IF d > n - Len(a) THEN a[d - (n - Len(a))] ELSE 1
      db(d) == IF d > n - Len(b) THEN b[d - (n - Len(b))] ELSE 1
  IN IF \A d \in 1..n : da(d) = db(d) \/ da(d) = 1 \/ db(d) = 1
     THEN [d \in 1..n |-> IF da(d) = 1 THEN db(d) ELSE da(d)]
     ELSE <<-1>>

IsShape(s) == \A d \in 1..Len(s) : s[d] >= 0

\* a + b * c, a and b tensors, c a number, with broadcasting.
AddScaled(a, b, c) ==
  LET s == BroadcastShapes(a.shape, b.shape)
  IN IF IsInvalid(a) \/ IsInvalid(b) \/ ~IsShape(s) THEN Invalid
     ELSE Build(s, a.dtype,
                LAMBDA i : At(a, BroadcastIdx(a.shape, i))
                           + At(b, BroadcastIdx(b.shape, i)) * c)

\* t.select(d, k): the slice k of dimension d (0-based).
Select(t, d, k) ==
  Build(RemoveAt(t.shape, d + 1), t.dtype, LAMBDA i : At(t, InsertAt(i, d + 1, k)))

\* at::stack(ts, 0) of tensors of one shape.
RECURSIVE Concat(_)
Concat(ss) == IF Len(ss) = 0 THEN <<>> ELSE ss[1] \o Concat(Tail(ss))

Stack(ts) ==
  IF \E k \in 1..Len(ts) : IsInvalid(ts[k]) \/ ts[k].shape # ts[1].shape THEN Invalid
  ELSE Tensor(<<Len(ts)>> \o ts[1].shape, ts[1].dtype,
              Concat([k \in 1..Len(ts) |-> ts[k].data]))

---------------------------------------------------------------------------
(***************************************************************************)
(* Gather and scatter primitives of the tensor library (at::gather,        *)
(* at::scatter, at::scatter_add, at::gather_backward).  A 0-dim tensor is  *)
(* treated by them as a 1-dim tensor of one element.                       *)
(***************************************************************************)
\* c10::maybe_wrap_dim: a 0-dim tensor accepts the dims -1 and 0.
WrapRange(rank) == IF rank = 0 THEN 1 ELSE rank

DimOk(dim, rank) == dim >= -WrapRange(rank) /\ dim < WrapRange(rank)

maybe_wrap_dim(dim, rank) == IF dim < 0 THEN dim + WrapRange(rank) ELSE dim

Promote(t) == IF Rank(t) = 0 THEN Tensor(<<1>>, t.dtype, t.data) ELSE t

\* at::gather(self, dim, index): out[i] = self[i with i[dim] := index[i]].
Gather(self, dim, index) ==
  IF IsInvalid(self) \/ IsInvalid(index) THEN Invalid
  ELSE
  LET s == Promote(self)
      x == Promote(index)
      d == maybe_wrap_dim(dim, Rank(self)) + 1
      ok == /\ DimOk(dim, Rank(self))
            /\ Rank(s) = Rank(x)
            /\ \A e \in 1..Rank(s) : e # d => x.shape[e] <= s.shape[e]
            /\ \A k \in 1..Numel(x) : x.data[k] >= 0 /\ x.data[k] < s.shape[d]
  IN IF ~ok THEN Invalid
     ELSE Tensor(index.shape, self.dtype,
                 [k \in 1..Numel(x) |->
                    At(s, ReplaceAt(Unravel(k - 1, x.shape), d, x.data[k]))])

RECURSIVE ProdSeq(_)
ProdSeq(s) == IF Len(s) = 0 THEN 1 ELSE s[1] * ProdSeq(Tail(s))

MaxOf(S) == CHOOSE m \in S : \A k \in S : k <= m

\* The common part of the scatter primitives: the elements of index are
\* visited in row-major order; element k writes source value src[k] to
\* self[i with i[dim] := index[i]], combining by `reduce`
\* ("none": overwrite, "add", "multiply").
ScatterInto(s, d, x, src, reduce) ==
  LET n == Numel(x)
      target == [k \in 1..n |->
                   Ravel(ReplaceAt(Unravel(k - 1, x.shape), d, x.data[k]), s.shape) + 1]
  IN Tensor(s.shape, s.dtype,
       [p \in 1..Numel(s) |->
          LET K == {k \in 1..n : target[k] = p}
          IN CASE reduce = "none" ->
                    IF K = {} THEN s.data[p] ELSE src[MaxOf(K)]
               [] reduce = "add" ->
                    s.data[p] + SumSeq([k \in 1..n |-> IF k \in K THEN src[k] ELSE 0])
               [] reduce = "multiply" ->
                    s.data[p] * ProdSeq([k \in 1..n |-> IF k \in K THEN src[k] ELSE 1])])

ScatterShapesOk(s, dim, rank, d, x) ==
  /\ DimOk(dim, rank)
  /\ Rank(s) = Rank(x)
  /\ \A e \in 1..Rank(s) : e # d => x.shape[e] <= s.shape[e]
  /\ \A k \in 1..Numel(x) : x.data[k] >= 0 /\ x.data[k] < s.shape[d]

\* at::scatter(self, dim, index, src), at::scatter(self, dim, index, src, reduce)
\* and at::scatter_add(self, dim, index, src) (reduce = "add").
Scatter(self, dim, index, src, reduce) ==
  IF IsInvalid(self) \/ IsInvalid(index) \/ IsInvalid(src) THEN Invalid
  ELSE
  LET s == Promote(self)
      x == Promote(index)
      r == Promote(src)
      d == maybe_wrap_dim(dim, Rank(self)) + 1
      ok == /\ ScatterShapesOk(s, dim, Rank(self), d, x)
            /\ Rank(r) = Rank(x)
            /\ \A e \in 1..Rank(x) : x.shape[e] <= r.shape[e]
  IN IF ~ok THEN Invalid
     ELSE Tensor(self.shape, self.dtype,
                 ScatterInto(s, d, x,
                             [k \in 1..Numel(x) |-> At(r, Unravel(k - 1, x.shape))],
                             reduce).data)

\* at::scatter(self, dim, index, value) and its reduce variant: a Scalar source.
ScatterValue(self, dim, index, val, reduce) ==
  IF IsInvalid(self) \/ IsInvalid(index) THEN Invalid
  ELSE
  LET s == Promote(self)
      x == Promote(index)
      d == maybe_wrap_dim(dim, Rank(self)) + 1
  IN IF ~ScatterShapesOk(s, dim, Rank(self), d, x) THEN Invalid
     ELSE Tensor(self.shape, self.dtype,
                 ScatterInto(s, d, x, [k \in 1..Numel(x) |-> val], reduce).data)

\* The primitive a scatter rule is instantiated with.
ApplyScatter(f, self, dim, index, src) ==
  CASE f = "scatter.src" -> Scatter(self, dim, index, src, "none")
    [] f = "scatter_add" -> Scatter(self, dim, index, src, "add")
    [] f = "scatter.reduce.add" -> Scatter(self, dim, index, src, "add")
    [] f = "scatter.reduce.multiply" -> Scatter(self, dim, index, src, "multiply")

ApplyScatterValue(f, self, dim, index, val) ==
  CASE f = "scatter.value" -> ScatterValue(self, dim, index, val, "none")
    [] f = "scatter.value_reduce.add" -> ScatterValue(self, dim, index, val, "add")
    [] f = "scatter.value_reduce.multiply" -> ScatterValue(self, dim, index, val, "multiply")

\* at::gather_backward(grad, self, dim, index, sparse_grad = false):
\* grad.new_zeros(self.sizes()).scatter_add_(dim, index, grad).
GatherBackward(grad, self, dim, index) ==
  IF IsInvalid(grad) \/ IsInvalid(self) \/ IsInvalid(index) THEN Invalid
  ELSE Scatter(Tensor(self.shape, grad.dtype, [k \in 1..Numel(self) |-> 0]),
               dim, index, grad, "add")

\* at::index_copy(self, dim, index, source): slice index[k] of self along dim
\* becomes slice k of source; the slices are written in the order of k.
IndexCopy(self, dim, index, source) ==
  IF IsInvalid(self) \/ IsInvalid(index) \/ IsInvalid(source) THEN Invalid
  ELSE
  LET s == Promote(self)
      r == Promote(source)
      n == Numel(index)
      d == maybe_wrap_dim(dim, Rank(self)) + 1
      ok == /\ DimOk(dim, Rank(self))
            /\ Rank(index) < 2
            /\ Rank(source) = 0 => n = 1
            /\ (Rank(source) # Rank(self)) => (Rank(source) = 0 \/ Rank(self) = 0)
            /\ RemoveAt(s.shape, d) = RemoveAt(r.shape, d)
            /\ n = r.shape[d]
            /\ \A k \in 1..n : index.data[k] >= 0 /\ index.data[k] < s.shape[d]
  IN IF ~ok THEN Invalid
     ELSE Tensor(self.shape, self.dtype,
                 Build(s.shape, s.dtype,
                       LAMBDA p :
                         LET K == {k \in 1..n : index.data[k] = p[d]}
                         IN IF K = {} THEN At(s, p)
                            ELSE At(r, ReplaceAt(p, d, MaxOf(K) - 1))).data)

---------------------------------------------------------------------------
(***************************************************************************)
(* Indexing with a list of optional index tensors (at::index and           *)
(* at::index_put_).  A boolean mask is replaced by the coordinates of its  *)
(* true elements; the index tensors are broadcast to one shape; the        *)
(* indexed dimensions are replaced by that shape, in place when the index  *)
(* tensors are adjacent in the list and at the front otherwise.            *)
(***************************************************************************)
\* The 1-based row-major offsets of the true elements of a mask, in order.
NonzeroOffsets(m) == SelectSeq([k \in 1..Numel(m) |-> k], LAMBDA k : m.data[k] = 1)

\* expandTensors: the list with each mask replaced by one long tensor per mask
\* dimension.  A mask that does not fit self's sizes yields Invalid in the list.
RECURSIVE ExpandTensors(_, _, _)
ExpandTensors(self, indices, acc) ==
  IF Len(indices) = 0 THEN acc
  ELSE IF ~has_value(indices[1]) THEN ExpandTensors(self, Tail(indices), acc \o <<nullopt>>)
  ELSE LET m == value(indices[1])
       IN IF m.dtype # "bool"
          THEN ExpandTensors(self, Tail(indices), acc \o <<Some(m)>>)
          ELSE IF \/ Len(acc) + Rank(m) > Rank(self)
                  \/ \E j \in 1..Rank(m) : m.shape[j] # self.shape[Len(acc) + j]
          THEN acc \o <<Some(Invalid)>>
          ELSE LET nz == NonzeroOffsets(m)
               IN ExpandTensors(self, Tail(indices),
                    acc \o [j \in 1..Rank(m) |->
                              Some(Tensor(<<Len(nz)>>, "long",
                                          [k \in 1..Len(nz) |->
                                             Unravel(nz[k] - 1, m.shape)[j]]))])

RECURSIVE BroadcastAll(_)
BroadcastAll(shapes) ==
  IF Len(shapes) = 0 THEN <<>>
  ELSE LET rest == BroadcastAll(Tail(shapes))
       IN IF ~IsShape(rest) THEN rest ELSE BroadcastShapes(shapes[1], rest)

\* F(v), with v evaluated once.
With(v, F(_)) == CHOOSE r \in {F(x) : x \in {v}} : TRUE

NoPlan == [ok |-> FALSE, shape |-> <<>>, src |-> <<>>]

\* The plan of an expanded list ex whose index tensors sit at the positions D
\* and broadcast to bshape.
PlanOf(self, ex, D, bshape) ==
  LET lo == CHOOSE j \in D : \A i \in D : j <= i
      hi == MaxOf(D)
      nb == Len(bshape)
      contiguous == \A j \in lo..hi : j \in D
      nPre == IF contiguous THEN lo - 1 ELSE 0
      U == {j \in 1..Rank(self) : j \notin D}
      before(j) == Cardinality({i \in U : i < j})
      outshape ==
        [q \in 1..(nb + Cardinality(U)) |->
           IF q <= nPre THEN self.shape[CHOOSE j \in U : before(j) = q - 1]
           ELSE IF q <= nPre + nb THEN bshape[q - nPre]
           ELSE self.shape[CHOOSE j \in U : before(j) = q - nb - 1]]
      coord(o, j) ==
        IF j \in D
        THEN LET t == value(ex[j])
                 v == At(t, BroadcastIdx(t.shape, SubSeq(o, nPre + 1, nPre + nb)))
             IN IF v < 0 THEN v + self.shape[j] ELSE v
        ELSE IF before(j) < nPre THEN o[before(j) + 1] ELSE o[before(j) + nb + 1]
  IN With(outshape, LAMBDA shape :
       With([k \in 1..Prod(shape) |->
               [j \in 1..Rank(self) |-> coord(Unravel(k - 1, shape), j)]],
            LAMBDA idxs :
              IF \E k \in 1..Len(idxs) : ~InBounds(idxs[k], self.shape) THEN NoPlan
              ELSE [ok |-> TRUE, shape |-> shape,
                    src |-> [k \in 1..Len(idxs) |-> Ravel(idxs[k], self.shape) + 1]]))

\* How an index list reads self: the shape of the indexed result and, for each
\* of its elements in row-major order, the 1-based offset of the element of
\* self it stands for.  ok is FALSE when the library rejects the list.
IndexPlan(self, indices) ==
  With(ExpandTensors(self, indices, <<>>), LAMBDA ex :
    LET D == {j \in 1..Len(ex) : has_value(ex[j])}
        bad == \/ IsInvalid(self)
               \/ Len(ex) > Rank(self)
               \/ D = {}
               \/ \E j \in D : IsInvalid(value(ex[j]))
        bshape == BroadcastAll([k \in 1..Cardinality(D) |->
                    value(ex[CHOOSE j \in D : Cardinality({i \in D : i < j}) = k - 1]).shape])
    IN IF bad THEN NoPlan
       ELSE With(bshape, LAMBDA bs :
              IF ~IsShape(bs) THEN NoPlan ELSE PlanOf(self, ex, D, bs)))

\* at::index(self, indices)
Index(self, indices) ==
  With(<<self, indices>>, LAMBDA a :
    With(IndexPlan(a[1], a[2]), LAMBDA plan :
      IF ~plan.ok THEN Invalid
      ELSE Tensor(plan.shape, a[1].dtype,
                  [k \in 1..Len(plan.src) |-> a[1].data[plan.src[k]]])))

\* at::index_put_(self, indices, values, accumulate): the contents of self
\* afterwards.  values is broadcast to the shape of the indexed result and its
\* elements are written (added, with accumulate) in row-major order.
IndexPut(self, indices, values, accumulate) ==
  With(<<self, indices, values>>, LAMBDA a :
    With(IndexPlan(a[1], a[2]), LAMBDA plan :
      IF ~plan.ok \/ IsInvalid(a[3]) \/ ~Expandable(a[3].shape, plan.shape) THEN Invalid
      ELSE With([k \in 1..Len(plan.src) |->
                   At(a[3], BroadcastIdx(a[3].shape, Unravel(k - 1, plan.shape)))],
                LAMBDA val :
                  Tensor(a[1].shape, a[1].dtype,
                    [p \in 1..Numel(a[1]) |->
                       LET K == {k \in 1..Len(val) : plan.src[k] = p}
                       IN IF accumulate
                          THEN a[1].data[p]
                                 + SumSeq([k \in 1..Len(val) |-> IF k \in K THEN val[k] ELSE 0])
                          ELSE IF K = {} THEN a[1].data[p] ELSE val[MaxOf(K)]]))))

---------------------------------------------------------------------------
(***************************************************************************)
(* Dimension utilities (BatchRulesHelper), after the specification's 4.1.  *)
(***************************************************************************)
rankWithoutBatchDim(t, bdim) == IF has_value(bdim) THEN Rank(t) - 1 ELSE Rank(t)

moveBatchDimToFront(t, bdim) ==
  IF has_value(bdim) THEN MoveDimToFront(t, value(bdim)) ELSE t

ensure_has_bdim(t, has_bdim, batch_size) ==
  IF has_bdim THEN t ELSE Expand(t, <<batch_size>> \o t.shape)

getPhysicalDim(t, has_batch_dim, logical_dim) ==
  LET rank == IF has_batch_dim THEN Rank(t) - 1 ELSE Rank(t)
      wrapped_dim == maybe_wrap_dim(logical_dim, rank)
  IN IF has_batch_dim THEN wrapped_dim + 1 ELSE wrapped_dim

---------------------------------------------------------------------------
(***************************************************************************)
(* What a rule gives back: a tensor with its batch-dim marker, or the      *)
(* error it raised.                                                        *)
(***************************************************************************)
Returns(t, bdim) == [status |-> "ok", tensor |-> t, bdim |-> bdim]

Raises(kind) == [status |-> kind, tensor |-> Invalid, bdim |-> nullopt]

\* std::make_tuple(result, 0), or the library's exception when the primitive
\* that computed result rejected its arguments.
MakeTuple(result) ==
  IF IsInvalid(result) THEN Raises("library_error") ELSE Returns(result, Some(0))

\* TORCH_INTERNAL_ASSERT(false) in bdim_size.
InternalAssertFailed == -1

bdim_size3(a, a_bdim, b, b_bdim, c, c_bdim) ==
  IF has_value(a_bdim) THEN a.shape[value(a_bdim) + 1]
  ELSE IF has_value(b_bdim) THEN b.shape[value(b_bdim) + 1]
  ELSE IF has_value(c_bdim) THEN c.shape[value(c_bdim) + 1]
  ELSE InternalAssertFailed

\* bdim_size with a default of 1 in place of the assertion.
bdim_size_defaulting_to_one(a, a_bdim, b, b_bdim) ==
  IF has_value(a_bdim) THEN a.shape[value(a_bdim) + 1]
  ELSE IF has_value(b_bdim) THEN b.shape[value(b_bdim) + 1]
  ELSE 1

bdim_size(a, a_bdim, b, b_bdim) ==
  IF has_value(a_bdim) THEN a.shape[value(a_bdim) + 1]
  ELSE IF has_value(b_bdim) THEN b.shape[value(b_bdim) + 1]
  ELSE InternalAssertFailed

---------------------------------------------------------------------------
(***************************************************************************)
(* batchIndices and the rules of the fancy-indexing path.                  *)
(***************************************************************************)
\* at::arange(0, batch_size), unsqueezed at the back up to rank minIndexDim.
ArangeIndex(batch_size, minIndexDim) ==
  Reshape(Arange(batch_size),
          [d \in 1..Max2(1, minIndexDim) |-> IF d = 1 THEN batch_size ELSE 1])

\* The list the loop over indices builds: each index with its batch axis moved
\* to the front.
MovedIndices(indices, indices_bdims) ==
  [i \in 1..Len(indices) |->
     IF has_value(indices[i])
     THEN Some(moveBatchDimToFront(value(indices[i]), indices_bdims[i]))
     ELSE nullopt]

\* The largest physical rank of an index of the list.
RECURSIVE MaxIndexDim(_)
MaxIndexDim(indices) ==
  IF Len(indices) = 0 THEN 0
  ELSE Max2(IF has_value(indices[1]) THEN Rank(value(indices[1])) ELSE 0,
            MaxIndexDim(Tail(indices)))

\* batchIndices without the check for a batched boolean index.
batchIndices_without_mask_check(indices, indices_bdims, batch_size, self_bdim, values_bdim) ==
  LET indices_0 == MovedIndices(indices, indices_bdims)
      indices_batched == \E i \in 1..Len(indices_bdims) : has_value(indices_bdims[i])
      minIndexDim == MaxIndexDim(indices)
                       + (IF ~indices_batched /\ has_value(values_bdim) THEN 1 ELSE 0)
      indices_ ==
        IF ~indices_batched /\ has_value(self_bdim) THEN <<nullopt>> \o indices_0
        ELSE IF indices_batched /\ ~has_value(self_bdim) THEN indices_0
        ELSE IF indices_batched /\ (has_value(self_bdim) \/ has_value(values_bdim))
        THEN <<Some(ArangeIndex(batch_size, minIndexDim))>> \o indices_0
        ELSE indices_0
  IN [status |-> "ok", indices |-> indices_]

\* batchIndices with the test of the third branch made before that of the
\* second.
batchIndices_arange_branch_first(indices, indices_bdims, batch_size, self_bdim, values_bdim) ==
  LET indices_0 == MovedIndices(indices, indices_bdims)
      boolean_mask == \E i \in 1..Len(indices) :
                        /\ has_value(indices[i])
                        /\ value(indices[i]).dtype = "bool"
                        /\ has_value(indices_bdims[i])
      indices_batched == \E i \in 1..Len(indices_bdims) : has_value(indices_bdims[i])
      minIndexDim == MaxIndexDim(indices)
                       + (IF ~indices_batched /\ has_value(values_bdim) THEN 1 ELSE 0)
      indices_ ==
        IF ~indices_batched /\ has_value(self_bdim) THEN <<nullopt>> \o indices_0
        ELSE IF indices_batched /\ (has_value(self_bdim) \/ has_value(values_bdim))
        THEN <<Some(ArangeIndex(batch_size, minIndexDim))>> \o indices_0
        ELSE indices_0
  IN IF boolean_mask THEN [status |-> "boolean_mask", indices |-> <<>>]
     ELSE [status |-> "ok", indices |-> indices_]

\* The list batchIndices returns, or the exception it throws.
batchIndices(indices, indices_bdims, batch_size, self_bdim, values_bdim) ==
  LET indices_0 == MovedIndices(indices, indices_bdims)
      boolean_mask == \E i \in 1..Len(indices) :
                        /\ has_value(indices[i])
                        /\ value(indices[i]).dtype = "bool"
                        /\ has_value(indices_bdims[i])
      indices_batched == \E i \in 1..Len(indices_bdims) : has_value(indices_bdims[i])
      minIndexDim == MaxIndexDim(indices)
                       + (IF ~indices_batched /\ has_value(values_bdim) THEN 1 ELSE 0)
      indices_ ==
        IF ~indices_batched /\ has_value(self_bdim) THEN <<nullopt>> \o indices_0
        ELSE IF indices_batched /\ ~has_value(self_bdim) THEN indices_0
        ELSE IF indices_batched /\ (has_value(self_bdim) \/ has_value(values_bdim))
        THEN <<Some(ArangeIndex(batch_size, minIndexDim))>> \o indices_0
        ELSE indices_0
  IN IF boolean_mask THEN [status |-> "boolean_mask", indices |-> <<>>]
     ELSE [status |-> "ok", indices |-> indices_]

index_batch_rule(self, self_bdim, indices, indices_bdims) ==
  LET self_ == moveBatchDimToFront(self, self_bdim)
      batched == batchIndices(indices, indices_bdims, self_.shape[1], self_bdim, nullopt)
  IN IF Len(indices) # Len(indices_bdims) THEN Raises("internal_assert")
     ELSE IF Rank(self_) = 0 THEN Raises("index_error")
     ELSE IF batched.status # "ok" THEN Raises(batched.status)
     ELSE MakeTuple(Index(self_, batched.indices))

\* What index_put__batch_rule leaves: how it ended and the contents of self.
Leaves(status, self) == [status |-> status, self |-> self]

\* index_put__batch_rule without the check that self is batched.
index_put__batch_rule_without_inplace_check(self, self_bdim, indices, indices_bdims, values, values_bdim, accumulate) ==
  LET self_ == moveBatchDimToFront(self, self_bdim)
      batched == batchIndices(indices, indices_bdims, self_.shape[1], self_bdim, values_bdim)
      written == IndexPut(self_, batched.indices, values, accumulate)
  IN IF Len(indices) # Len(indices_bdims) THEN Leaves("internal_assert", self)
     ELSE IF Rank(self_) = 0 THEN Leaves("index_error", self)
     ELSE IF batched.status # "ok" THEN Leaves(batched.status, self)
     ELSE IF IsInvalid(written) THEN Leaves("library_error", self)
     ELSE Leaves("ok", IF has_value(self_bdim) THEN MoveFrontTo(written, value(self_bdim))
                       ELSE written)

index_put__batch_rule(self, self_bdim, indices, indices_bdims, values, values_bdim, accumulate) ==
  LET self_ == moveBatchDimToFront(self, self_bdim)
      values_ == moveBatchDimToFront(values, values_bdim)
      batched == batchIndices(indices, indices_bdims, self_.shape[1], self_bdim, values_bdim)
      written == IndexPut(self_, batched.indices, values, accumulate)
  IN IF ~has_value(self_bdim) THEN Leaves("incompatible_inplace", self)
     ELSE IF Len(indices) # Len(indices_bdims) THEN Leaves("internal_assert", self)
     ELSE IF batched.status # "ok" THEN Leaves(batched.status, self)
     ELSE IF IsInvalid(written) THEN Leaves("library_error", self)
     \* self_ is a view of self: the write lands in self
     ELSE Leaves("ok", MoveFrontTo(written, value(self_bdim)))

---------------------------------------------------------------------------
(***************************************************************************)
(* index_copy                                                              *)
(***************************************************************************)
\* The subscripts of new_self_shape[dim] and new_source_shape[dim] are inside
\* the vectors, when the rule comes to them.
index_copy_subscripts_in_bounds(self, self_bdim, dim, index, index_bdim, source, source_bdim) ==
  LET self_logical_rank == rankWithoutBatchDim(self, self_bdim)
      source_logical_rank == rankWithoutBatchDim(source, source_bdim)
      batch_size == bdim_size3(self, self_bdim, index, index_bdim, source, source_bdim)
  IN (batch_size # InternalAssertFailed /\ self_logical_rank # 0 /\ source_logical_rank # 0)
       => (dim \in 0..(self_logical_rank - 1) /\ dim \in 0..(source_logical_rank - 1))

index_copy_batch_rule(self, self_bdim, dim, index, index_bdim, source, source_bdim) ==
  LET self_logical_rank == rankWithoutBatchDim(self, self_bdim)
      source_logical_rank == rankWithoutBatchDim(source, source_bdim)
      batch_size == bdim_size3(self, self_bdim, index, index_bdim, source, source_bdim)
      self_ == ensure_has_bdim(moveBatchDimToFront(self, self_bdim),
                               has_value(self_bdim), batch_size)
      index_ == ensure_has_bdim(moveBatchDimToFront(index, index_bdim),
                                has_value(index_bdim), batch_size)
      source_ == ensure_has_bdim(moveBatchDimToFront(source, source_bdim),
                                 has_value(source_bdim), batch_size)
      \* both self and source have a logical dimension
      dim_ == maybe_wrap_dim(dim, self_logical_rank) + 1
      arange_shape == [d \in 1..Rank(index_) |-> IF d = 1 THEN batch_size ELSE 1]
      batched_index ==
        LET sum == AddScaled(index_, Reshape(Arange(batch_size), arange_shape),
                             self_.shape[dim_ + 1])
        IN Reshape(sum, <<Numel(sum)>>)
      self_shape == self_.shape
      \* new_self_shape[dim] *= batch_size with the dim as passed: an index outside
      \* the vector leaves its elements as copied
      new_self_shape ==
        LET t == Tail(self_shape)
        IN IF dim \in 0..(Len(t) - 1) THEN ReplaceAt(t, dim + 1, t[dim + 1] * batch_size)
           ELSE t
      new_source_shape ==
        LET t == Tail(source_.shape)
        IN IF dim \in 0..(Len(t) - 1) THEN ReplaceAt(t, dim + 1, t[dim + 1] * batch_size)
           ELSE t
      result == Reshape(IndexCopy(Reshape(self_, new_self_shape), dim, batched_index,
                                  Reshape(source_, new_source_shape)),
                        self_shape)
      \* self or source is a scalar
      batched_index0 == AddScaled(Reshape(index_, <<Numel(index_)>>), Arange(batch_size), 1)
      self_view == Reshape(self_, <<1, batch_size>>)
      source_view == Reshape(source_, <<1, batch_size>>)
      result0 == IndexCopy(self_view, 1, batched_index0, source_view)
  IN IF batch_size = InternalAssertFailed THEN Raises("internal_assert")
     ELSE IF self_logical_rank # 0 /\ source_logical_rank # 0 THEN MakeTuple(result)
     ELSE IF self_logical_rank = 0 THEN MakeTuple(SqueezeFirst(result0))
     ELSE MakeTuple(Reshape(result0, self_.shape))

\* What a call of index_copy_batch_rule can end in.  A subscript outside a
\* VmapDimVector is undefined behaviour: the process is stopped (the bounds
\* assertion of the vector, a fault), or the access falls outside the elements
\* and the rule goes on with the vectors as copied.
index_copy_outcomes(self, self_bdim, dim, index, index_bdim, source, source_bdim) ==
  {index_copy_batch_rule(self, self_bdim, dim, index, index_bdim, source, source_bdim)}
    \cup (IF index_copy_subscripts_in_bounds(self, self_bdim, dim, index, index_bdim,
                                             source, source_bdim)
          THEN {} ELSE {Raises("crash")})

---------------------------------------------------------------------------
(***************************************************************************)
(* The gather / scatter family of rules.                                   *)
(***************************************************************************)
\* The template with a Scalar value (scatter.value, scatter.value_reduce).
scatter_batch_rule_value(f, self, self_bdim, dim, index, index_bdim, val) ==
  LET self_logical_rank == rankWithoutBatchDim(self, self_bdim)
      index_logical_rank == rankWithoutBatchDim(index, index_bdim)
      batch_size == bdim_size(self, self_bdim, index, index_bdim)
      self_0 == moveBatchDimToFront(self, self_bdim)
      index_0 == moveBatchDimToFront(index, index_bdim)
      self_1 == IF self_logical_rank = 0 THEN UnsqueezeLast(self_0) ELSE self_0
      index_1 == IF index_logical_rank = 0 THEN UnsqueezeLast(index_0) ELSE index_0
      self_ == ensure_has_bdim(self_1, has_value(self_bdim), batch_size)
      index_ == ensure_has_bdim(index_1, has_value(index_bdim), batch_size)
      physical_dim == getPhysicalDim(self_, TRUE, dim)
      result == ApplyScatterValue(f, self_, physical_dim, index_, val)
  IN IF batch_size = InternalAssertFailed THEN Raises("internal_assert")
     ELSE MakeTuple(IF self_logical_rank = 0 THEN SqueezeLast(result) ELSE result)

\* The template with a tensor src (scatter.src, scatter_add, scatter.reduce).
scatter_batch_rule(f, self, self_bdim, dim, index, index_bdim, src, src_bdim) ==
  LET self_logical_rank == rankWithoutBatchDim(self, self_bdim)
      index_logical_rank == rankWithoutBatchDim(index, index_bdim)
      src_logical_rank == rankWithoutBatchDim(src, src_bdim)
      batch_size == bdim_size3(self, self_bdim, index, index_bdim, src, src_bdim)
      self_0 == moveBatchDimToFront(self, self_bdim)
      index_0 == moveBatchDimToFront(index, index_bdim)
      src_0 == moveBatchDimToFront(src, src_bdim)
      self_1 == IF self_logical_rank = 0 THEN UnsqueezeLast(self_0) ELSE self_0
      index_1 == IF index_logical_rank = 0 THEN UnsqueezeLast(index_0) ELSE index_0
      src_1 == IF src_logical_rank = 0 THEN UnsqueezeLast(src_0) ELSE src_0
      self_ == ensure_has_bdim(self_1, has_value(self_bdim), batch_size)
      index_ == ensure_has_bdim(index_1, has_value(index_bdim), batch_size)
      src_ == ensure_has_bdim(src_1, has_value(src_bdim), batch_size)
      physical_dim == getPhysicalDim(self_, TRUE, dim)
      result == ApplyScatter(f, self_, physical_dim, index_, src_)
  IN IF batch_size = InternalAssertFailed THEN Raises("internal_assert")
     ELSE MakeTuple(IF self_logical_rank = 0 THEN SqueezeLast(result) ELSE result)

\* gather_batch_rule squeezing the result when self, not index, is a scalar, as
\* the scatter template does.
gather_batch_rule_squeezing_on_self(self, self_bdim, dim, index, index_bdim) ==
  LET self_logical_rank == rankWithoutBatchDim(self, self_bdim)
      index_logical_rank == rankWithoutBatchDim(index, index_bdim)
      batch_size == bdim_size(self, self_bdim, index, index_bdim)
      self_0 == moveBatchDimToFront(self, self_bdim)
      index_0 == moveBatchDimToFront(index, index_bdim)
      self_1 == IF self_logical_rank = 0 THEN UnsqueezeLast(self_0) ELSE self_0
      index_1 == IF index_logical_rank = 0 THEN UnsqueezeLast(index_0) ELSE index_0
      self_ == ensure_has_bdim(self_1, has_value(self_bdim), batch_size)
      index_ == ensure_has_bdim(index_1, has_value(index_bdim), batch_size)
      physical_dim == getPhysicalDim(self_, TRUE, dim)
      result == Gather(self_, physical_dim, index_)
  IN IF batch_size = InternalAssertFailed THEN Raises("internal_assert")
     ELSE MakeTuple(IF self_logical_rank = 0 THEN SqueezeLast(result) ELSE result)

gather_batch_rule(self, self_bdim, dim, index, index_bdim) ==
  LET self_logical_rank == rankWithoutBatchDim(self, self_bdim)
      index_logical_rank == rankWithoutBatchDim(index, index_bdim)
      batch_size == bdim_size(self, self_bdim, index, index_bdim)
      self_0 == moveBatchDimToFront(self, self_bdim)
      index_0 == moveBatchDimToFront(index, index_bdim)
      self_1 == IF self_logical_rank = 0 THEN UnsqueezeLast(self_0) ELSE self_0
      index_1 == IF index_logical_rank = 0 THEN UnsqueezeLast(index_0) ELSE index_0
      self_ == ensure_has_bdim(self_1, has_value(self_bdim), batch_size)
      index_ == ensure_has_bdim(index_1, has_value(index_bdim), batch_size)
      physical_dim == getPhysicalDim(self_, TRUE, dim)
      result == Gather(self_, physical_dim, index_)
  IN IF batch_size = InternalAssertFailed THEN Raises("internal_assert")
     ELSE MakeTuple(IF index_logical_rank = 0 THEN SqueezeLast(result) ELSE result)

gather_backward_batch_rule(grad, grad_bdim, self, self_bdim, dim, index, index_bdim) ==
  LET batch_size == bdim_size3(grad, grad_bdim, self, self_bdim, index, index_bdim)
      grad_0 == moveBatchDimToFront(grad, grad_bdim)
      self_0 == moveBatchDimToFront(self, self_bdim)
      index_0 == moveBatchDimToFront(index, index_bdim)
      self_logical_rank == rankWithoutBatchDim(self, self_bdim)
      index_logical_rank == rankWithoutBatchDim(index, index_bdim)
      grad_logical_rank == rankWithoutBatchDim(grad, grad_bdim)
      grad_1 == IF grad_logical_rank = 0 THEN UnsqueezeLast(grad_0) ELSE grad_0
      self_1 == IF self_logical_rank = 0 THEN UnsqueezeLast(self_0) ELSE self_0
      index_1 == IF index_logical_rank = 0 THEN UnsqueezeLast(index_0) ELSE index_0
      grad_ == ensure_has_bdim(grad_1, has_value(grad_bdim), batch_size)
      self_ == ensure_has_bdim(self_1, has_value(self_bdim), batch_size)
      index_ == ensure_has_bdim(index_1, has_value(index_bdim), batch_size)
      physical_dim == getPhysicalDim(self_, TRUE, dim)
      result == GatherBackward(grad_, self_, physical_dim, index_)
  IN IF batch_size = InternalAssertFailed THEN Raises("internal_assert")
     ELSE MakeTuple(IF self_logical_rank = 0 THEN SqueezeLast(result) ELSE result)

\* index_select_batch_rule with the index used as it is, not reshaped and
\* expanded to the rank of self.
index_select_batch_rule_index_not_expanded(self, self_bdim, dim, index, index_bdim) ==
  LET self_logical_rank == rankWithoutBatchDim(self, self_bdim)
      index_logical_rank == rankWithoutBatchDim(index, index_bdim)
      batch_size == bdim_size(self, self_bdim, index, index_bdim)
      self_0 == moveBatchDimToFront(self, self_bdim)
      index_0 == moveBatchDimToFront(index, index_bdim)
      self_1 == IF self_logical_rank = 0 THEN UnsqueezeLast(self_0) ELSE self_0
      index_1 == IF index_logical_rank = 0 THEN UnsqueezeLast(index_0) ELSE index_0
      self_ == ensure_has_bdim(self_1, has_value(self_bdim), batch_size)
      index_ == ensure_has_bdim(index_1, has_value(index_bdim), batch_size)
      physical_dim == getPhysicalDim(self_, TRUE, dim)
      result == Gather(self_, physical_dim, index_)
  IN IF batch_size = InternalAssertFailed THEN Raises("internal_assert")
     ELSE MakeTuple(IF self_logical_rank = 0 THEN SqueezeLast(result) ELSE result)

\* The subscript of new_index_shape[physical_dim] is inside the vectors of
\* self_.dim() elements, when the rule comes to them.
index_select_subscripts_in_bounds(self, self_bdim, dim, index, index_bdim) ==
  LET self_logical_rank == rankWithoutBatchDim(self, self_bdim)
      index_logical_rank == rankWithoutBatchDim(index, index_bdim)
      batch_size == bdim_size(self, self_bdim, index, index_bdim)
      self_0 == moveBatchDimToFront(self, self_bdim)
      index_0 == moveBatchDimToFront(index, index_bdim)
      self_1 == IF self_logical_rank = 0 THEN UnsqueezeLast(self_0) ELSE self_0
      index_1 == IF index_logical_rank = 0 THEN UnsqueezeLast(index_0) ELSE index_0
      self_ == ensure_has_bdim(self_1, has_value(self_bdim), batch_size)
      index_ == ensure_has_bdim(index_1, has_value(index_bdim), batch_size)
      physical_dim == getPhysicalDim(self_, TRUE, dim)
  IN (batch_size # InternalAssertFailed /\ Rank(index_) < Rank(self_))
       => physical_dim \in 0..(Rank(self_) - 1)

index_select_batch_rule(self, self_bdim, dim, index, index_bdim) ==
  LET self_logical_rank == rankWithoutBatchDim(self, self_bdim)
      index_logical_rank == rankWithoutBatchDim(index, index_bdim)
      batch_size == bdim_size(self, self_bdim, index, index_bdim)
      self_0 == moveBatchDimToFront(self, self_bdim)
      index_0 == moveBatchDimToFront(index, index_bdim)
      self_1 == IF self_logical_rank = 0 THEN UnsqueezeLast(self_0) ELSE self_0
      index_1 == IF index_logical_rank = 0 THEN UnsqueezeLast(index_0) ELSE index_0
      self_ == ensure_has_bdim(self_1, has_value(self_bdim), batch_size)
      index_2 == ensure_has_bdim(index_1, has_value(index_bdim), batch_size)
      physical_dim == getPhysicalDim(self_, TRUE, dim)
      le == index_2.shape[2]
      \* [BS, 1, ..., le, ..., 1]
      new_index_shape ==
        [d \in 1..Rank(self_) |->
           IF d = physical_dim + 1 THEN le
           ELSE IF d = 1 THEN self_.shape[1] ELSE 1]
      index_ ==
        IF Rank(index_2) < Rank(self_)
        THEN Expand(Reshape(index_2, new_index_shape),
                    ReplaceAt(self_.shape, physical_dim + 1, le))
        ELSE index_2
      result == Gather(self_, physical_dim, index_)
  IN IF batch_size = InternalAssertFailed THEN Raises("internal_assert")
     ELSE MakeTuple(IF self_logical_rank = 0 THEN SqueezeLast(result) ELSE result)

---------------------------------------------------------------------------
(***************************************************************************)
(* The calls the dispatch layer makes.  An operand is drawn as a logical   *)
(* (per-example) shape, whether it is batched, and where its batch axis    *)
(* sits; a batched operand holds BatchSize examples.  Element values are    *)
(* pairwise distinct, so a result shows which element was read; index      *)
(* values follow a pattern chosen by two seeds (constant or varying inside *)
(* an example, equal or differing between examples).                       *)
(***************************************************************************)
Batches == 1..MaxBatch

Seeds == 0..MaxSeed

\* Positions of the batch axis of a batched operand of logical shape s: the
\* front or the back.
BdimsOf(s, batched) == IF batched THEN {Some(0), Some(Len(s))} ELSE {nullopt}

\* The operand with its batch axis (if any) at the front.
FrontShape(s, batched, B) == IF batched THEN <<B>> \o s ELSE s

ValueTensor(s, batched, B, base) ==
  Build(FrontShape(s, batched, B), "float",
        LAMBDA i : base + Ravel(i, FrontShape(s, batched, B)))

\* Index values below n.  Seed 0 varies inside an example and agrees between
\* examples; other seeds differ between examples as well.
IndexTensor(s, batched, B, n, seed) ==
  Build(FrontShape(s, batched, B), "long",
        LAMBDA i : IF batched
                   THEN (seed + seed * i[1] + (seed + 1) * Ravel(Tail(i), s)) % n
                   ELSE (seed + (seed + 1) * Ravel(i, s)) % n)

\* The physical operand: the batch axis moved to where the marker says.
Place(t, bdim) == IF has_value(bdim) THEN MoveFrontTo(t, value(bdim)) ELSE t

SizeAt(s, dim) == IF Len(s) = 0 THEN 1 ELSE s[maybe_wrap_dim(dim, Len(s)) + 1]

Case2(self, index, dims) == {[self |-> self, index |-> index, dim |-> d] : d \in dims}

Case3(self, index, src, dims) ==
  {[self |-> self, index |-> index, src |-> src, dim |-> d] : d \in dims}

\* (self, index, dim) that at::gather and at::scatter (value) accept.
GatherCases ==
  Case2(<<>>, <<>>, {0, -1}) \cup Case2(<<>>, <<2>>, {0}) \cup Case2(<<3>>, <<>>, {0})
    \cup Case2(<<3>>, <<2>>, {0, -1}) \cup Case2(<<2, 3>>, <<2, 2>>, {0, 1, -1, -2})

\* (self, index, src, dim) that at::scatter (src) and at::scatter_add accept.
ScatterCases ==
  Case3(<<>>, <<>>, <<>>, {0, -1}) \cup Case3(<<3>>, <<>>, <<>>, {0})
    \cup Case3(<<>>, <<2>>, <<3>>, {0}) \cup Case3(<<3>>, <<2>>, <<2>>, {0, -1})
    \cup Case3(<<2, 3>>, <<2, 2>>, <<2, 2>>, {0, 1, -1})

\* (self, index, source, dim) that at::index_copy accepts.
IndexCopyCases ==
  Case3(<<>>, <<>>, <<>>, {0}) \cup Case3(<<>>, <<1>>, <<1>>, {0})
    \cup Case3(<<1>>, <<>>, <<>>, {0}) \cup Case3(<<3>>, <<>>, <<>>, {0})
    \cup Case3(<<3>>, <<2>>, <<2>>, {0, -1})
    \cup Case3(<<2, 3>>, <<1>>, <<1, 3>>, {0}) \cup Case3(<<2, 3>>, <<2>>, <<2, 2>>, {1, -1})
    \cup Case3(<<3, 2>>, <<2>>, <<2, 2>>, {0, -2}) \cup Case3(<<3, 2>>, <<1>>, <<3, 1>>, {1})

\* (self, index, dim) that at::index_select accepts.
IndexSelectCases ==
  Case2(<<3>>, <<2>>, {0, -1}) \cup Case2(<<2, 3>>, <<2>>, {0, 1, -1, -2})
    \cup Case2(<<3>>, <<>>, {0}) \cup Case2(<<>>, <<1>>, {0})

\* An entry of an index list: the null placeholder, a long index tensor or a
\* boolean mask, of a logical shape.
NoIndex == [kind |-> "none", shape |-> <<>>]

LongIndex(shape) == [kind |-> "long", shape |-> shape]

Mask(shape) == [kind |-> "bool", shape |-> shape]

IndexCase(self, list) == [self |-> self, list |-> list]

\* (self, index list) of the index read rule.
IndexCases ==
  { IndexCase(<<3>>, <<LongIndex(<<2>>)>>),
    IndexCase(<<3>>, <<LongIndex(<<>>)>>),
    IndexCase(<<3>>, <<Mask(<<3>>)>>),
    IndexCase(<<2, 3>>, <<LongIndex(<<2>>)>>),
    IndexCase(<<2, 3>>, <<LongIndex(<<2>>), LongIndex(<<2>>)>>),
    IndexCase(<<2, 3>>, <<LongIndex(<<2>>), LongIndex(<<2, 1>>)>>),
    IndexCase(<<2, 3>>, <<NoIndex, LongIndex(<<2>>)>>),
    IndexCase(<<2, 3>>, <<NoIndex, Mask(<<3>>)>>),
    IndexCase(<<2, 2, 2>>, <<LongIndex(<<2>>), NoIndex, LongIndex(<<2>>)>>),
    IndexCase(<<>>, <<Mask(<<>>)>>) }

\* (self, index list) of the index_put write rule.
IndexPutCases ==
  { IndexCase(<<3>>, <<LongIndex(<<2>>)>>),
    IndexCase(<<3>>, <<Mask(<<3>>)>>),
    IndexCase(<<2, 3>>, <<LongIndex(<<2>>)>>),
    IndexCase(<<2, 3>>, <<LongIndex(<<2>>), LongIndex(<<2>>)>>),
    IndexCase(<<2, 3>>, <<NoIndex, LongIndex(<<2>>)>>) }

\* Per operand: unbatched, or batched with the batch axis at the front or back.
Layouts == {"unbatched", "front", "back"}

BdimOf(s, layout) ==
  CASE layout = "unbatched" -> nullopt
    [] layout = "front" -> Some(0)
    [] layout = "back" -> Some(Len(s))

\* The layouts of the entries of an index list.  A 0-dim mask is passed
\* batched only (indexing by an unbatched 0-dim mask is not modelled).
ListLayouts(list) ==
  {fl \in [1..Len(list) -> Layouts] :
     \A j \in 1..Len(list) :
       /\ list[j].kind = "none" => fl[j] = "unbatched"
       /\ (list[j].kind = "bool" /\ list[j].shape = <<>>) => fl[j] # "unbatched"}

MaskTensor(s, batched, B, seed) ==
  Build(FrontShape(s, batched, B), "bool",
        LAMBDA i : IF batched
                   THEN (seed + i[1] + Ravel(Tail(i), s)) % 2
                   ELSE (seed + Ravel(i, s)) % 2)

\* The physical index list of a case and its batch-dim markers.
IndicesOf(c, fl, B, seed) ==
  [j \in 1..Len(c.list) |->
     LET e == c.list[j]
         batched == fl[j] # "unbatched"
     IN CASE e.kind = "none" -> nullopt
          [] e.kind = "long" ->
               Some(Place(IndexTensor(e.shape, batched, B, c.self[j], seed + j - 1),
                          BdimOf(e.shape, fl[j])))
          [] e.kind = "bool" ->
               Some(Place(MaskTensor(e.shape, batched, B, seed), BdimOf(e.shape, fl[j])))]

BdimsOfList(c, fl) == [j \in 1..Len(c.list) |-> BdimOf(c.list[j].shape, fl[j])]

AllUnbatched(list) == [j \in 1..Len(list) |-> "unbatched"]

ScatterFns == {"scatter.src", "scatter_add", "scatter.reduce.add", "scatter.reduce.multiply"}

ScatterValueFns == {"scatter.value", "scatter.value_reduce.add", "scatter.value_reduce.multiply"}

Init ==
  /\ pc = "idle"
  /\ call = <<>>
  /\ ret = <<>>

CallGather ==
  /\ pc = "idle"
  /\ \E c \in GatherCases, B \in Batches, sb, xb \in BOOLEAN, seed \in Seeds :
       \E self_bdim \in BdimsOf(c.self, sb), index_bdim \in BdimsOf(c.index, xb) :
         LET self == Place(ValueTensor(c.self, sb, B, 100), self_bdim)
             index == Place(IndexTensor(c.index, xb, B, SizeAt(c.self, c.dim), seed),
                            index_bdim)
         IN /\ call' = [op |-> "gather", self |-> self, self_bdim |-> self_bdim,
                        dim |-> c.dim, index |-> index, index_bdim |-> index_bdim]
            /\ ret' = gather_batch_rule(self, self_bdim, c.dim, index, index_bdim)
            /\ pc' = "gather"

CallScatter ==
  /\ pc = "idle"
  /\ \E c \in ScatterCases, f \in ScatterFns, B \in Batches, sb, xb, rb \in BOOLEAN,
        seed \in Seeds :
       \E self_bdim \in BdimsOf(c.self, sb), index_bdim \in BdimsOf(c.index, xb),
          src_bdim \in BdimsOf(c.src, rb) :
         LET self == Place(ValueTensor(c.self, sb, B, 100), self_bdim)
             index == Place(IndexTensor(c.index, xb, B, SizeAt(c.self, c.dim), seed),
                            index_bdim)
             src == Place(ValueTensor(c.src, rb, B, 2), src_bdim)
         IN /\ call' = [op |-> f, self |-> self, self_bdim |-> self_bdim,
                        dim |-> c.dim, index |-> index, index_bdim |-> index_bdim,
                        src |-> src, src_bdim |-> src_bdim]
            /\ ret' = scatter_batch_rule(f, self, self_bdim, c.dim, index, index_bdim,
                                         src, src_bdim)
            /\ pc' = "scatter"

CallScatterValue ==
  /\ pc = "idle"
  /\ \E c \in GatherCases, f \in ScatterValueFns, B \in Batches, sb, xb \in BOOLEAN,
        seed \in Seeds :
       \E self_bdim \in BdimsOf(c.self, sb), index_bdim \in BdimsOf(c.index, xb) :
         LET self == Place(ValueTensor(c.self, sb, B, 100), self_bdim)
             index == Place(IndexTensor(c.index, xb, B, SizeAt(c.self, c.dim), seed),
                            index_bdim)
         IN /\ call' = [op |-> f, self |-> self, self_bdim |-> self_bdim,
                        dim |-> c.dim, index |-> index, index_bdim |-> index_bdim,
                        value |-> 7]
            /\ ret' = scatter_batch_rule_value(f, self, self_bdim, c.dim, index,
                                               index_bdim, 7)
            /\ pc' = "scatter_value"

CallGatherBackward ==
  /\ pc = "idle"
  /\ \E c \in GatherCases, B \in Batches, gb, sb, xb \in BOOLEAN, seed \in Seeds :
       \E grad_bdim \in BdimsOf(c.index, gb), self_bdim \in BdimsOf(c.self, sb),
          index_bdim \in BdimsOf(c.index, xb) :
         LET grad == Place(ValueTensor(c.index, gb, B, 2), grad_bdim)
             self == Place(ValueTensor(c.self, sb, B, 100), self_bdim)
             index == Place(IndexTensor(c.index, xb, B, SizeAt(c.self, c.dim), seed),
                            index_bdim)
         IN /\ call' = [op |-> "gather_backward", grad |-> grad, grad_bdim |-> grad_bdim,
                        self |-> self, self_bdim |-> self_bdim,
                        dim |-> c.dim, index |-> index, index_bdim |-> index_bdim]
            /\ ret' = gather_backward_batch_rule(grad, grad_bdim, self, self_bdim, c.dim,
                                                 index, index_bdim)
            /\ pc' = "gather_backward"

CallIndexSelect ==
  /\ pc = "idle"
  /\ \E c \in IndexSelectCases, B \in Batches, sb, xb \in BOOLEAN, seed \in Seeds :
       \E self_bdim \in BdimsOf(c.self, sb), index_bdim \in BdimsOf(c.index, xb) :
         LET self == Place(ValueTensor(c.self, sb, B, 100), self_bdim)
             index == Place(IndexTensor(c.index, xb, B, SizeAt(c.self, c.dim), seed),
                            index_bdim)
         IN /\ call' = [op |-> "index_select", self |-> self, self_bdim |-> self_bdim,
                        dim |-> c.dim, index |-> index, index_bdim |-> index_bdim]
            /\ ret' = index_select_batch_rule(self, self_bdim, c.dim, index, index_bdim)
            /\ pc' = "index_select"

CallIndexCopy ==
  /\ pc = "idle"
  /\ \E c \in IndexCopyCases, B \in Batches, sb, xb, rb \in BOOLEAN, seed \in Seeds :
       \E self_bdim \in BdimsOf(c.self, sb), index_bdim \in BdimsOf(c.index, xb),
          source_bdim \in BdimsOf(c.src, rb) :
         LET self == Place(ValueTensor(c.self, sb, B, 100), self_bdim)
             index == Place(IndexTensor(c.index, xb, B, SizeAt(c.self, c.dim), seed),
                            index_bdim)
             source == Place(ValueTensor(c.src, rb, B, 2), source_bdim)
         IN /\ call' = [op |-> "index_copy", self |-> self, self_bdim |-> self_bdim,
                        dim |-> c.dim, index |-> index, index_bdim |-> index_bdim,
                        source |-> source, source_bdim |-> source_bdim]
            /\ ret' \in index_copy_outcomes(self, self_bdim, c.dim, index, index_bdim,
                                             source, source_bdim)
            /\ pc' = "index_copy"

CallIndex ==
  /\ pc = "idle"
  /\ \E c \in IndexCases, B \in Batches, sl \in Layouts, seed \in Seeds :
       \E fl \in ListLayouts(c.list) :
         LET self_bdim == BdimOf(c.self, sl)
             self == Place(ValueTensor(c.self, sl # "unbatched", B, 100), self_bdim)
             indices == IndicesOf(c, fl, B, seed)
             indices_bdims == BdimsOfList(c, fl)
         IN /\ call' = [op |-> "index", self |-> self, self_bdim |-> self_bdim,
                        indices |-> indices, indices_bdims |-> indices_bdims]
            /\ ret' = index_batch_rule(self, self_bdim, indices, indices_bdims)
            /\ pc' = "index"

CallIndexPut ==
  /\ pc = "idle"
  /\ \E c \in IndexPutCases, B \in Batches, sl, vl \in Layouts, seed \in Seeds,
        accumulate \in BOOLEAN :
       \E fl \in ListLayouts(c.list) :
         LET self_bdim == BdimOf(c.self, sl)
             self == Place(ValueTensor(c.self, sl # "unbatched", B, 100), self_bdim)
             indices == IndicesOf(c, fl, B, seed)
             indices_bdims == BdimsOfList(c, fl)
             \* values has the shape of one example's indexed result
             vshape == Index(ValueTensor(c.self, FALSE, B, 100),
                             IndicesOf(c, AllUnbatched(c.list), B, seed)).shape
             values_bdim == BdimOf(vshape, vl)
             values == Place(ValueTensor(vshape, vl # "unbatched", B, 2), values_bdim)
         IN /\ call' = [op |-> "index_put", self |-> self, self_bdim |-> self_bdim,
                        indices |-> indices, indices_bdims |-> indices_bdims,
                        values |-> values, values_bdim |-> values_bdim,
                        accumulate |-> accumulate]
            /\ ret' = index_put__batch_rule(self, self_bdim, indices, indices_bdims,
                                            values, values_bdim, accumulate)
            /\ pc' = "index_put"

\* batchIndices called on its own, with any markers for self and values.
CallBatchIndices ==
  /\ pc = "idle"
  /\ \E c \in IndexCases, B \in Batches, seed \in Seeds,
        self_bdim, values_bdim \in {nullopt, Some(0)} :
       \E fl \in ListLayouts(c.list) :
         LET indices == IndicesOf(c, fl, B, seed)
             indices_bdims == BdimsOfList(c, fl)
         IN /\ call' = [op |-> "batchIndices", indices |-> indices,
                        indices_bdims |-> indices_bdims, batch_size |-> B,
                        self_bdim |-> self_bdim, values_bdim |-> values_bdim]
            /\ ret' = batchIndices(indices, indices_bdims, B, self_bdim, values_bdim)
            /\ pc' = "batchIndices"

Next ==
  \/ CallGather
  \/ CallScatter
  \/ CallScatterValue
  \/ CallGatherBackward
  \/ CallIndexSelect
  \/ CallIndexCopy
  \/ CallIndex
  \/ CallIndexPut
  \/ CallBatchIndices

Spec == Init /\ [][Next]_vars

---------------------------------------------------------------------------
(***************************************************************************)
(* Looping: the unbatched operation on each example, stacked along axis 0. *)
(***************************************************************************)
\* Example b of an operand: slice b of a batched one, the whole of another.
Example(t, bdim, b) == IF has_value(bdim) THEN Select(t, value(bdim), b) ELSE t

AnyBatched(bdims) == \E k \in 1..Len(bdims) : has_value(bdims[k])

\* The batch size of the call: the size of a batched operand's batch axis.
BatchSizeOf(ts, bdims) ==
  LET k == CHOOSE j \in 1..Len(bdims) : has_value(bdims[j])
  IN ts[k].shape[value(bdims[k]) + 1]

LoopGather(c) ==
  Stack([b \in 1..BatchSizeOf(<<c.self, c.index>>, <<c.self_bdim, c.index_bdim>>) |->
           Gather(Example(c.self, c.self_bdim, b - 1), c.dim,
                  Example(c.index, c.index_bdim, b - 1))])

LoopScatter(c) ==
  Stack([b \in 1..BatchSizeOf(<<c.self, c.index, c.src>>,
                              <<c.self_bdim, c.index_bdim, c.src_bdim>>) |->
           ApplyScatter(c.op, Example(c.self, c.self_bdim, b - 1), c.dim,
                        Example(c.index, c.index_bdim, b - 1),
                        Example(c.src, c.src_bdim, b - 1))])

LoopScatterValue(c) ==
  Stack([b \in 1..BatchSizeOf(<<c.self, c.index>>, <<c.self_bdim, c.index_bdim>>) |->
           ApplyScatterValue(c.op, Example(c.self, c.self_bdim, b - 1), c.dim,
                             Example(c.index, c.index_bdim, b - 1), c.value)])

LoopGatherBackward(c) ==
  Stack([b \in 1..BatchSizeOf(<<c.grad, c.self, c.index>>,
                              <<c.grad_bdim, c.self_bdim, c.index_bdim>>) |->
           GatherBackward(Example(c.grad, c.grad_bdim, b - 1),
                          Example(c.self, c.self_bdim, b - 1), c.dim,
                          Example(c.index, c.index_bdim, b - 1))])

LoopIndexCopy(c) ==
  Stack([b \in 1..BatchSizeOf(<<c.self, c.index, c.source>>,
                              <<c.self_bdim, c.index_bdim, c.source_bdim>>) |->
           IndexCopy(Example(c.self, c.self_bdim, b - 1), c.dim,
                     Example(c.index, c.index_bdim, b - 1),
                     Example(c.source, c.source_bdim, b - 1))])

\* C1: for gather, the scatter variants and scatter_add, whenever at least one
\* operand is batched the rule returns a tensor with batch-dim marker 0 whose
\* slice b along axis 0 is the unbatched operation applied to example b of
\* each operand (slice b of a batched operand, the whole of an unbatched one).
C1_EquivalenceToLooping ==
  /\ (pc = "gather" /\ AnyBatched(<<call.self_bdim, call.index_bdim>>)) =>
       ret = Returns(LoopGather(call), Some(0))
  /\ (pc = "scatter" /\ AnyBatched(<<call.self_bdim, call.index_bdim, call.src_bdim>>)) =>
       ret = Returns(LoopScatter(call), Some(0))
  /\ (pc = "scatter_value" /\ AnyBatched(<<call.self_bdim, call.index_bdim>>)) =>
       ret = Returns(LoopScatterValue(call), Some(0))

\* C2: index_copy on every operating dimension: when self and source both
\* have nonzero logical rank, slice b of the rule's result is the unbatched
\* index_copy of example b of self, index and source, for dim = 0 and for
\* dim >= 1 alike.
C2_IndexCopyEveryDim ==
  (/\ pc = "index_copy"
   /\ AnyBatched(<<call.self_bdim, call.index_bdim, call.source_bdim>>)
   /\ rankWithoutBatchDim(call.self, call.self_bdim) # 0
   /\ rankWithoutBatchDim(call.source, call.source_bdim) # 0
   /\ call.dim >= 0) =>
     ret = Returns(LoopIndexCopy(call), Some(0))

\* The same for dim = 0 only.
IndexCopyDimZero ==
  (/\ pc = "index_copy"
   /\ AnyBatched(<<call.self_bdim, call.index_bdim, call.source_bdim>>)
   /\ rankWithoutBatchDim(call.self, call.self_bdim) # 0
   /\ rankWithoutBatchDim(call.source, call.source_bdim) # 0
   /\ call.dim = 0) =>
     ret = Returns(LoopIndexCopy(call), Some(0))

---------------------------------------------------------------------------
(***************************************************************************)
(* The fancy-indexing path.                                                *)
(***************************************************************************)
IndexCallBatched(c) ==
  has_value(c.self_bdim) \/ AnyBatched(c.indices_bdims)

\* Some boolean mask of the call's index list carries a batch-dim marker.
BatchedMask(c) ==
  \E j \in 1..Len(c.indices) :
    /\ has_value(c.indices[j])
    /\ value(c.indices[j]).dtype = "bool"
    /\ has_value(c.indices_bdims[j])

IndexBatchSize(c) ==
  IF has_value(c.self_bdim) THEN c.self.shape[value(c.self_bdim) + 1]
  ELSE LET j == CHOOSE k \in 1..Len(c.indices) : has_value(c.indices_bdims[k])
       IN value(c.indices[j]).shape[value(c.indices_bdims[j]) + 1]

ExampleIndices(c, b) ==
  [j \in 1..Len(c.indices) |->
     IF has_value(c.indices[j])
     THEN Some(Example(value(c.indices[j]), c.indices_bdims[j], b))
     ELSE nullopt]

LoopIndex(c) ==
  Stack([b \in 1..IndexBatchSize(c) |->
           Index(Example(c.self, c.self_bdim, b - 1), ExampleIndices(c, b - 1))])

\* C3: fancy-index reads: with at least one batched argument (and no batched
\* mask), index_batch_rule returns marker 0 and a tensor whose axis 0 is the
\* batch axis and whose slice b is the unbatched index of example b of self
\* by example b of each index, whatever nulls and ranks the list holds.
C3_IndexEquivalenceToLooping ==
  (pc = "index" /\ IndexCallBatched(call) /\ ~BatchedMask(call)) =>
    ret = Returns(LoopIndex(call), Some(0))

---------------------------------------------------------------------------
(***************************************************************************)
(* Batch-dim invariance.                                                   *)
(***************************************************************************)
Front(bdim) == IF has_value(bdim) THEN Some(0) ELSE nullopt

FrontIndices(c) == MovedIndices(c.indices, c.indices_bdims)

FrontBdims(c) == [j \in 1..Len(c.indices_bdims) |-> Front(c.indices_bdims[j])]

\* The rules that return a tensor give the same result when every batched
\* input is passed with its batch axis at position 0 instead.
InvariantReturn ==
  /\ pc = "gather" =>
       ret = gather_batch_rule(moveBatchDimToFront(call.self, call.self_bdim),
                               Front(call.self_bdim), call.dim,
                               moveBatchDimToFront(call.index, call.index_bdim),
                               Front(call.index_bdim))
  /\ pc = "gather_backward" =>
       ret = gather_backward_batch_rule(
               moveBatchDimToFront(call.grad, call.grad_bdim), Front(call.grad_bdim),
               moveBatchDimToFront(call.self, call.self_bdim), Front(call.self_bdim),
               call.dim,
               moveBatchDimToFront(call.index, call.index_bdim), Front(call.index_bdim))
  /\ pc = "scatter" =>
       ret = scatter_batch_rule(call.op,
               moveBatchDimToFront(call.self, call.self_bdim), Front(call.self_bdim),
               call.dim,
               moveBatchDimToFront(call.index, call.index_bdim), Front(call.index_bdim),
               moveBatchDimToFront(call.src, call.src_bdim), Front(call.src_bdim))
  /\ pc = "scatter_value" =>
       ret = scatter_batch_rule_value(call.op,
               moveBatchDimToFront(call.self, call.self_bdim), Front(call.self_bdim),
               call.dim,
               moveBatchDimToFront(call.index, call.index_bdim), Front(call.index_bdim),
               call.value)
  /\ pc = "index_select" =>
       ret = index_select_batch_rule(
               moveBatchDimToFront(call.self, call.self_bdim), Front(call.self_bdim),
               call.dim,
               moveBatchDimToFront(call.index, call.index_bdim), Front(call.index_bdim))
  /\ pc = "index_copy" =>
       ret \in index_copy_outcomes(
                 moveBatchDimToFront(call.self, call.self_bdim), Front(call.self_bdim),
                 call.dim,
                 moveBatchDimToFront(call.index, call.index_bdim), Front(call.index_bdim),
                 moveBatchDimToFront(call.source, call.source_bdim), Front(call.source_bdim))
  /\ pc = "index" =>
       ret = index_batch_rule(moveBatchDimToFront(call.self, call.self_bdim),
                              Front(call.self_bdim), FrontIndices(call), FrontBdims(call))

\* index_put ends the same way and leaves the same contents in self when every
\* batched input (self, the indices, values) is passed with its batch axis at
\* position 0 instead.
InvariantIndexPut ==
  pc = "index_put" =>
    LET front == index_put__batch_rule(
                   moveBatchDimToFront(call.self, call.self_bdim), Front(call.self_bdim),
                   FrontIndices(call), FrontBdims(call),
                   moveBatchDimToFront(call.values, call.values_bdim),
                   Front(call.values_bdim), call.accumulate)
    IN /\ ret.status = front.status
       /\ moveBatchDimToFront(ret.self, call.self_bdim) = front.self

\* C4: batch-dim invariance: for every rule and every batched input (self,
\* index, src/source, grad, and the values of index_put), passing the input
\* with its batch axis at another position and the marker adjusted gives the
\* same result (for index_put, the same final contents of self) as passing it
\* with the batch axis at position 0.
C4_BatchDimInvariance == InvariantReturn /\ InvariantIndexPut

\* The same with the values of index_put left where they are: only self and
\* the indices of index_put are moved.
InvariantIndexPutButValues ==
  pc = "index_put" =>
    LET front == index_put__batch_rule(
                   moveBatchDimToFront(call.self, call.self_bdim), Front(call.self_bdim),
                   FrontIndices(call), FrontBdims(call),
                   call.values, call.values_bdim, call.accumulate)
    IN /\ ret.status = front.status
       /\ moveBatchDimToFront(ret.self, call.self_bdim) = front.self

---------------------------------------------------------------------------
(***************************************************************************)
(* Errors of the fancy-indexing path.                                      *)
(***************************************************************************)
\* C5 as stated: on the index read rule and on the index_put write rule, a
\* batched boolean index makes the call fail with the boolean-mask error for
\* every combination of batched/unbatched self and values, and an unbatched
\* boolean index never does.
C5_MaskRejectedForAnySelf ==
  (pc = "index" \/ pc = "index_put") =>
    (ret.status = "boolean_mask" <=> BatchedMask(call))

\* C5 as amended: a batched boolean index makes the index read rule fail with
\* the boolean-mask error when self has a dimension, and the index_put write
\* rule when self is batched, for batched and unbatched values alike; on an
\* unbatched self index_put fails with the in-place error instead, and the
\* index read of a 0-dim unbatched self with an index error; without a batched
\* boolean index the boolean-mask error is never raised.
C5_MaskRejected ==
  /\ (pc = "index" /\ BatchedMask(call)) =>
       ret.status = (IF Rank(call.self) = 0 THEN "index_error" ELSE "boolean_mask")
  /\ (pc = "index_put" /\ BatchedMask(call)) =>
       /\ ret.status = (IF has_value(call.self_bdim) THEN "boolean_mask"
                        ELSE "incompatible_inplace")
       /\ ret.self = call.self
  /\ ((pc = "index" \/ pc = "index_put") /\ ~BatchedMask(call)) =>
       ret.status # "boolean_mask"

C5_Witness ==
  /\ pc = "index_put"
  /\ BatchedMask(call)
  /\ has_value(call.self_bdim)
  /\ has_value(call.values_bdim)
  /\ ret.status = "boolean_mask"

\* C6: index_put on a self without batch-dim marker fails with the in-place
\* error, whatever indices and values are batched, and leaves every element of
\* self as it was.
C6_InplaceContract ==
  (pc = "index_put" /\ ~has_value(call.self_bdim)) =>
    ret = Leaves("incompatible_inplace", call.self)

C6_Witness ==
  /\ pc = "index_put"
  /\ ~has_value(call.self_bdim)
  /\ AnyBatched(call.indices_bdims)
  /\ has_value(call.values_bdim)
  /\ ret.status = "incompatible_inplace"

---------------------------------------------------------------------------
(***************************************************************************)
(* Calls with no batched argument.                                         *)
(***************************************************************************)
\* No argument of the call carries a batch-dim marker.
NothingBatched ==
  CASE pc \in {"gather", "scatter_value", "index_select"} ->
         ~AnyBatched(<<call.self_bdim, call.index_bdim>>)
    [] pc = "scatter" ->
         ~AnyBatched(<<call.self_bdim, call.index_bdim, call.src_bdim>>)
    [] pc = "index_copy" ->
         ~AnyBatched(<<call.self_bdim, call.index_bdim, call.source_bdim>>)
    [] pc = "gather_backward" ->
         ~AnyBatched(<<call.grad_bdim, call.self_bdim, call.index_bdim>>)
    [] pc = "index" -> ~IndexCallBatched(call)
    [] OTHER -> FALSE

\* The plain unbatched operation on the arguments of the call.
PlainOperation ==
  CASE pc = "gather" -> Gather(call.self, call.dim, call.index)
    [] pc = "gather_backward" ->
         GatherBackward(call.grad, call.self, call.dim, call.index)
    [] pc = "scatter" -> ApplyScatter(call.op, call.self, call.dim, call.index, call.src)
    [] pc = "scatter_value" ->
         ApplyScatterValue(call.op, call.self, call.dim, call.index, call.value)
    [] pc = "index_select" ->
         \* at::index_select: self with dimension dim read at the index values
         LET d == maybe_wrap_dim(call.dim, Rank(call.self)) + 1
         IN Build(ReplaceAt(call.self.shape, d, Numel(call.index)), call.self.dtype,
                  LAMBDA i : At(call.self, ReplaceAt(i, d, call.index.data[i[d] + 1])))
    [] pc = "index_copy" -> IndexCopy(call.self, call.dim, call.index, call.source)
    [] pc = "index" -> Index(call.self, call.indices)

\* C7 as stated: a rule called with no batched argument returns the result of
\* the plain unbatched operation with the marker none.
C7_UnbatchedPassThrough ==
  NothingBatched => ret = Returns(PlainOperation, nullopt)

\* C7 as amended: called with no batched argument, gather, gather_backward,
\* every scatter variant, index_select and index_copy fail with the internal
\* assertion of bdim_size, and index returns the result of the plain unbatched
\* index with the marker 0.
C7_UnbatchedCall ==
  NothingBatched =>
    IF pc = "index" THEN ret = Returns(PlainOperation, Some(0))
    ELSE ret = Raises("internal_assert")

C7_Witness ==
  /\ pc = "index"
  /\ NothingBatched
  /\ ret.status = "ok"
  /\ ret.bdim = Some(0)

---------------------------------------------------------------------------
(***************************************************************************)
(* Ranks and shapes of the results.                                        *)
(***************************************************************************)
\* The logical ranks of the tensor operands of a gather, scatter or
\* index_copy call.
OperandRanks ==
  CASE pc \in {"gather", "scatter_value"} ->
         <<rankWithoutBatchDim(call.self, call.self_bdim),
           rankWithoutBatchDim(call.index, call.index_bdim)>>
    [] pc = "scatter" ->
         <<rankWithoutBatchDim(call.self, call.self_bdim),
           rankWithoutBatchDim(call.index, call.index_bdim),
           rankWithoutBatchDim(call.src, call.src_bdim)>>
    [] pc = "index_copy" ->
         <<rankWithoutBatchDim(call.self, call.self_bdim),
           rankWithoutBatchDim(call.index, call.index_bdim),
           rankWithoutBatchDim(call.source, call.source_bdim)>>

CallBatchSize ==
  CASE pc \in {"gather", "scatter_value"} ->
         BatchSizeOf(<<call.self, call.index>>, <<call.self_bdim, call.index_bdim>>)
    [] pc = "scatter" ->
         BatchSizeOf(<<call.self, call.index, call.src>>,
                     <<call.self_bdim, call.index_bdim, call.src_bdim>>)
    [] pc = "index_copy" ->
         BatchSizeOf(<<call.self, call.index, call.source>>,
                     <<call.self_bdim, call.index_bdim, call.source_bdim>>)

\* C8: for gather, the scatter variants and index_copy with a batched operand:
\* when every tensor operand has logical rank 0 the rule returns a tensor of
\* physical shape [batch_size] with marker 0; and, whatever the ranks, the
\* rule returns a result whose logical rank is that of index for gather and
\* that of self for the scatter variants and index_copy.
C8_RankZeroHandling ==
  (pc \in {"gather", "scatter", "scatter_value", "index_copy"} /\ ~NothingBatched) =>
    /\ (\A k \in 1..Len(OperandRanks) : OperandRanks[k] = 0) =>
         /\ ret.bdim = Some(0)
         /\ ret.tensor.shape = <<CallBatchSize>>
    /\ ret.status = "ok"
    /\ rankWithoutBatchDim(ret.tensor, ret.bdim)
         = (IF pc = "gather" THEN OperandRanks[2] ELSE OperandRanks[1])

\* What holds of the ranks: with every operand of logical rank 0 the rule
\* returns a tensor of shape [batch_size] with marker 0; gather and the
\* scatter variants always return; and a returned result has the logical rank
\* of index for gather, of self for the others.
RankOfReturnedResult ==
  (pc \in {"gather", "scatter", "scatter_value", "index_copy"} /\ ~NothingBatched) =>
    /\ (\A k \in 1..Len(OperandRanks) : OperandRanks[k] = 0) =>
         /\ ret.status = "ok"
         /\ ret.bdim = Some(0)
         /\ ret.tensor.shape = <<CallBatchSize>>
    /\ ret.status = "ok" =>
         rankWithoutBatchDim(ret.tensor, ret.bdim)
           = (IF pc = "gather" THEN OperandRanks[2] ELSE OperandRanks[1])
    /\ pc # "index_copy" => ret.status = "ok"

\* index_copy fails on a self with a dimension of more than one element and a
\* scalar source, which at::index_copy accepts on every example.
ScalarSourceRejected ==
  /\ pc = "index_copy"
  /\ ~NothingBatched
  /\ OperandRanks = <<1, 0, 0>>
  /\ ret.status = "library_error"
  /\ ~IsInvalid(LoopIndexCopy(call))

\* C9: index_select with self of logical shape S (rank >= 1), a 1-D logical
\* index of length L and a batched operand returns, with marker 0, the tensor
\* of shape [N] followed by S with entry d replaced by L, whose element
\* [b, ..., j at axis d, ...] is element [..., index_b[j] at axis d, ...] of
\* example b of self, index_b being example b of the index.
C9_IndexSelectResult ==
  (/\ pc = "index_select"
   /\ ~NothingBatched
   /\ rankWithoutBatchDim(call.self, call.self_bdim) >= 1
   /\ rankWithoutBatchDim(call.index, call.index_bdim) = 1) =>
    LET N == BatchSizeOf(<<call.self, call.index>>, <<call.self_bdim, call.index_bdim>>)
        S == Example(call.self, call.self_bdim, 0).shape
        L == Example(call.index, call.index_bdim, 0).shape[1]
        d == maybe_wrap_dim(call.dim, Len(S)) + 1
    IN ret = Returns(
               Build(<<N>> \o ReplaceAt(S, d, L), "float",
                     LAMBDA i :
                       At(Example(call.self, call.self_bdim, i[1]),
                          ReplaceAt(Tail(i), d,
                                    At(Example(call.index, call.index_bdim, i[1]),
                                       <<i[d + 1]>>)))),
               Some(0))

C9_Witness ==
  /\ pc = "index_select"
  /\ has_value(call.self_bdim)
  /\ has_value(call.index_bdim)
  /\ rankWithoutBatchDim(call.self, call.self_bdim) = 2
  /\ call.dim = 0
  /\ ret.status = "ok"
  /\ ret.tensor.shape = <<2, 2, 3>>
  /\ Example(call.index, call.index_bdim, 0) # Example(call.index, call.index_bdim, 1)

C1_Witness ==
  /\ pc = "scatter"
  /\ call.op = "scatter_add"
  /\ ~has_value(call.self_bdim)
  /\ has_value(call.index_bdim)
  /\ has_value(call.src_bdim)
  /\ rankWithoutBatchDim(call.self, call.self_bdim) = 2
  /\ ret.status = "ok"
  /\ ret.tensor.shape = <<2, 2, 3>>
  /\ Example(call.index, call.index_bdim, 0) # Example(call.index, call.index_bdim, 1)

---------------------------------------------------------------------------
(***************************************************************************)
(* batchIndices, called on its own.                                        *)
(***************************************************************************)
\* The index a[b, 0, ..., 0] = b of shape [batch_size, 1, ..., 1] and the given rank.
SynthesizedArange(batch_size, rank) ==
  Tensor([d \in 1..rank |-> IF d = 1 THEN batch_size ELSE 1], "long",
         [k \in 1..batch_size |-> k - 1])

\* The list with the synthesized arange in front of the entries of the input,
\* each with its batch axis at the front.
ArangePrepended(c) ==
  <<Some(SynthesizedArange(c.batch_size, Max2(1, MaxIndexDim(c.indices))))>>
    \o MovedIndices(c.indices, c.indices_bdims)

\* C10 as stated: whenever some index is batched and self or values is
\* batched, batchIndices returns the list one longer than its input that
\* starts with the arange of shape [batch_size, 1, ..., 1] and rank
\* max(1, minIndexDim) and goes on with the entries of the input in order,
\* also when self is unbatched and only values is batched.
C10_CaseCWheneverSelfOrValuesBatched ==
  (/\ pc = "batchIndices"
   /\ ~BatchedMask(call)
   /\ AnyBatched(call.indices_bdims)
   /\ (has_value(call.self_bdim) \/ has_value(call.values_bdim))) =>
    /\ ret.status = "ok"
    /\ Len(ret.indices) = Len(call.indices) + 1
    /\ ret.indices = ArangePrepended(call)

\* C10 as amended: whenever some index is batched and self is batched,
\* batchIndices returns that list; when some index is batched and self is
\* unbatched it returns the entries of the input unchanged in number and
\* order, also when values is batched.
C10_CaseC ==
  (pc = "batchIndices" /\ ~BatchedMask(call) /\ AnyBatched(call.indices_bdims)) =>
    /\ ret.status = "ok"
    /\ has_value(call.self_bdim) =>
         /\ Len(ret.indices) = Len(call.indices) + 1
         /\ ret.indices = ArangePrepended(call)
    /\ ~has_value(call.self_bdim) =>
         ret.indices = MovedIndices(call.indices, call.indices_bdims)

C10_Witness ==
  /\ pc = "batchIndices"
  /\ AnyBatched(call.indices_bdims)
  /\ has_value(call.self_bdim)
  /\ Len(call.indices) = 2
  /\ MaxIndexDim(call.indices) = 3
  /\ ret.status = "ok"
  /\ Len(ret.indices) = 3
  /\ value(ret.indices[1]).shape = <<2, 1, 1>>

---------------------------------------------------------------------------
(***************************************************************************)
(* Negative dims.                                                          *)
(***************************************************************************)
\* The call is of a rule with a dim argument, on a self of logical rank
\* r >= 1, with a dim in [-r, -1].
NegativeDimCall ==
  /\ pc \in {"gather", "gather_backward", "scatter", "scatter_value", "index_select",
             "index_copy"}
  /\ rankWithoutBatchDim(call.self, call.self_bdim) >= 1
  /\ call.dim \in (0 - rankWithoutBatchDim(call.self, call.self_bdim))..(0 - 1)

\* What the rule of the call returns for a dim.
RuleWithDim(dim) ==
  CASE pc = "gather" ->
         gather_batch_rule(call.self, call.self_bdim, dim, call.index, call.index_bdim)
    [] pc = "gather_backward" ->
         gather_backward_batch_rule(call.grad, call.grad_bdim, call.self, call.self_bdim,
                                    dim, call.index, call.index_bdim)
    [] pc = "scatter" ->
         scatter_batch_rule(call.op, call.self, call.self_bdim, dim, call.index,
                            call.index_bdim, call.src, call.src_bdim)
    [] pc = "scatter_value" ->
         scatter_batch_rule_value(call.op, call.self, call.self_bdim, dim, call.index,
                                  call.index_bdim, call.value)
    [] pc = "index_select" ->
         index_select_batch_rule(call.self, call.self_bdim, dim, call.index,
                                 call.index_bdim)
    [] pc = "index_copy" ->
         index_copy_batch_rule(call.self, call.self_bdim, dim, call.index,
                               call.index_bdim, call.source, call.source_bdim)

\* The rule of the call subscripts its shape vectors inside their bounds.
SubscriptsInBounds ==
  CASE pc = "index_copy" ->
         index_copy_subscripts_in_bounds(call.self, call.self_bdim, call.dim, call.index,
                                         call.index_bdim, call.source, call.source_bdim)
    [] pc = "index_select" ->
         index_select_subscripts_in_bounds(call.self, call.self_bdim, call.dim, call.index,
                                           call.index_bdim)
    [] OTHER -> TRUE

WrappedDim == call.dim + rankWithoutBatchDim(call.self, call.self_bdim)

\* C11: a rule with a dim argument, called on a self of logical rank r >= 1
\* with a negative dim d in [-r, -1], subscripts its shape vectors only inside
\* their bounds and returns what it returns for the dim d + r.
C11_NegativeDimWrapping ==
  NegativeDimCall => (SubscriptsInBounds /\ ret = RuleWithDim(WrappedDim))

\* What holds of negative dims: gather, gather_backward, the scatter variants,
\* index_select, and index_copy with a scalar source, stay inside the bounds
\* and return what they return for the wrapped dim.
NegativeDimWrappingButIndexCopy ==
  (/\ NegativeDimCall
   /\ pc = "index_copy" => rankWithoutBatchDim(call.source, call.source_bdim) = 0) =>
    (SubscriptsInBounds /\ ret = RuleWithDim(WrappedDim))

\* index_copy with a negative dim, a batch of one example and the subscript
\* falling outside the elements: the result is that of the wrapped dim, the
\* access out of bounds all the same.
IndexCopyNegativeDimOneExample ==
  (/\ NegativeDimCall
   /\ pc = "index_copy"
   /\ ~NothingBatched
   /\ CallBatchSize = 1
   /\ ret.status # "crash") =>
    ret = RuleWithDim(WrappedDim)

\* index_copy with a negative dim and more than one example: the reshape to
\* the unmultiplied shape is rejected, where the wrapped dim returns a tensor.
NegativeDimRejected ==
  /\ NegativeDimCall
  /\ pc = "index_copy"
  /\ ~NothingBatched
  /\ CallBatchSize = 2
  /\ call.dim = -1
  /\ rankWithoutBatchDim(call.self, call.self_bdim) = 1
  /\ ~SubscriptsInBounds
  /\ ret.status = "library_error"
  /\ RuleWithDim(WrappedDim).status = "ok"

====
